---- MODULE Spec2Model ----
(***************************************************************************)
(* Fan-out dispatcher of ga_ua_extractions_manager/main.py:                *)
(*   prep_request_batches -> asyncio.run(async_requests(payload_list))     *)
(*   async_requests       -> one aiohttp_request_to_function task per      *)
(*                           payload, inside one asyncio.TaskGroup         *)
(* asyncio is single-threaded and cooperative: a task runs from one await  *)
(* to the next without interruption, so each action below is the code      *)
(* between two awaits.  The worker endpoint and the network are the        *)
(* environment: every outcome of an await is chosen nondeterministically.  *)
(***************************************************************************)
EXTENDS Integers, Sequences, FiniteSets, Bags, TLC

\* ---------------------------------------------------------------- bounds
\* Largest payload_list explored by Spec.
MaxJobs == 2
\* Number of payloads in the connection-pool scenario (SpecPool): more
\* than the pool holds.
PoolJobs == 9
\* Requested dates are drawn from windows of WindowDays + 1 days.
WindowDays == 6
\* Largest number of selected templates.
MaxTemplates == 2

\* ------------------------------------------------------ program constants
\* aiohttp.TCPConnector(limit=8)
ConnLimit == 8
\* retry = 3
retry == 3
\* AsyncLimiter(600, 60)
max_rate == 600

VARIABLES
    payload_list,           \* the payloads given to async_requests, as job ids 1..N
    dpc,                    \* position of async_requests
    aborting,               \* TaskGroup._aborting: a child raised, siblings were cancelled
    pc,                     \* position of each aiohttp_request_to_function task
    retries,                \* local variable retries of each task
    response_status,        \* local variable response_status of each task
    response,               \* local variable response of each task ("unbound" until assigned)
    result,                 \* what each task returned
    rate_limit,             \* the AsyncLimiter instances: owner task -> capacity taken
    acquired,               \* tasks holding a connection of the TCPConnector
    waiters,                \* tasks queued inside session.post for a free connection
    task_results,           \* tasks whose done callback ran; the list's order is the
                            \* completion order, which nothing constrains: it is
                            \* chosen when the list is read
    visited,                \* entries of task_results the result loop has handled
    successful_data_loads,  \* the list, as the bag of the jobs whose result it holds
    failed_data_loads,      \* likewise
    return_dict,            \* the summary async_requests returned
    results,                \* what prep_request_batches returned
    calls,                  \* observation: requests sent to the worker per job
    outcomes,               \* observation: outcome of each finished post per job
    ppc,                    \* position of prep_request_batches
    extract_start_date,     \* date_range_criteria.start_date, a "YYYY-MM-DD" text
    extract_end_date,       \* date_range_criteria.end_date
    combined_template_list, \* the selected templates
    date_range_batches,     \* the batch_date_list of each template handled so far
    payloads,               \* the payload dicts of payload_list, in order
    request_json,           \* request.get_json(silent=True)
    downloads,              \* the blobs download_blob has fetched, in order
    return_data             \* the response returned before any dispatch

vars == <<payload_list, dpc, aborting, pc, retries, response_status, response,
          result, rate_limit, acquired, waiters, task_results, visited,
          successful_data_loads, failed_data_loads, return_dict, results,
          calls, outcomes, ppc, extract_start_date, extract_end_date,
          combined_template_list, date_range_batches, payloads,
          request_json, downloads, return_data>>

\* The request as received, and what is done before the templates are split.
FrontVars == <<request_json, downloads, return_data>>

\* The variables of prep_request_batches before it calls async_requests.
PlannerVars == <<ppc, extract_start_date, extract_end_date,
                 combined_template_list, date_range_batches, payloads, FrontVars>>

Jobs == 1..Len(payload_list)

\* Bodies a 2xx response can carry: a JSON object whose status is "Success",
\* a JSON object with another status (the worker answers 200 with status
\* "Failed"), and text that is not JSON.
Bodies == {"Success", "Failed", "malformed"}

NoResult == [type |-> "none", body |-> "", retries |-> 0]
TextResult(b) == [type |-> "text", body |-> b, retries |-> 0]
DictResult(r) == [type |-> "dict", body |-> "Failed", retries |-> r]

TaskDone(j) == pc[j] \in {"returned", "raised", "cancelled"}

\* ------------------------------------------------------- connection pool
\* TCPConnector(limit=8): a new connection is opened only below the limit.
HasCapacityUnlimited(acq) == TRUE
HasCapacity(acq) == Cardinality(acq) < ConnLimit

\* session.post asks the connector for a connection: taken at once when the
\* pool has room, else the task queues.  c is the record
\* [acquired, waiters, pc, calls].
Connect(j, c) ==
    IF HasCapacity(c.acquired)
    THEN [c EXCEPT !.acquired = @ \cup {j}, !.pc[j] = "posting", !.calls[j] = @ + 1]
    ELSE [c EXCEPT !.waiters = Append(@, j), !.pc[j] = "waiting"]

\* A connection goes back to the pool; the first queued task takes it.
Release(j, c) ==
    LET a == c.acquired \ {j} IN
    IF c.waiters # <<>> /\ HasCapacity(a)
    THEN LET w == Head(c.waiters) IN
         [c EXCEPT !.acquired = a \cup {w}, !.waiters = Tail(@),
                   !.pc[w] = "posting", !.calls[w] = @ + 1]
    ELSE [c EXCEPT !.acquired = a]

Net == [acquired |-> acquired, waiters |-> waiters, pc |-> pc, calls |-> calls]

SetNet(c) ==
    /\ acquired' = c.acquired
    /\ waiters' = c.waiters
    /\ pc' = c.pc
    /\ calls' = c.calls

\* ----------------------------------------------------------- calendar
\* A date text "YYYY-MM-DD" is the record [y, m, d] of its three fields; a
\* datetime (and a pandas Timestamp) is its proleptic Gregorian ordinal, day
\* 1 being 0001-01-01, as datetime.toordinal counts.
DateText(y, m, d) == [y |-> y, m |-> m, d |-> d]

IsLeap(y) == (y % 4 = 0 /\ y % 100 # 0) \/ y % 400 = 0

\* calendar.monthrange(year, month)[1]
MonthLengthNoLeap(y, m) ==
    IF m = 2 THEN 28 ELSE IF m \in {4, 6, 9, 11} THEN 30 ELSE 31
MonthLength(y, m) ==
    IF m = 2 THEN (IF IsLeap(y) THEN 29 ELSE 28)
    ELSE IF m \in {4, 6, 9, 11} THEN 30 ELSE 31

DaysBeforeYear(y) ==
    (y - 1) * 365 + ((y - 1) \div 4) - ((y - 1) \div 100) + ((y - 1) \div 400)

\* The days of year y before month m.
DaysBeforeMonth(y, m) ==
    <<0, 31, 59, 90, 120, 151, 181, 212, 243, 273, 304, 334>>[m]
    + (IF m > 2 /\ IsLeap(y) THEN 1 ELSE 0)

\* The text names a day of the calendar: what strptime accepts.
ValidDate(t) == t.m \in 1..12 /\ t.d \in 1..MonthLength(t.y, t.m)

\* datetime.strptime(text, "%Y-%m-%d"), for a text it accepts.
strptime(t) == DaysBeforeYear(t.y) + DaysBeforeMonth(t.y, t.m) + t.d

\* dt.strftime("%Y-%m-%d")
strftime(n) ==
    LET y == CHOOSE yy \in ((n * 400) \div 146097)..(((n * 400) \div 146097) + 2) :
                 DaysBeforeYear(yy) < n /\ n <= DaysBeforeYear(yy + 1)
        r == n - DaysBeforeYear(y)
        m == CHOOSE mm \in 1..12 :
                 DaysBeforeMonth(y, mm) < r
                 /\ r <= DaysBeforeMonth(y, mm) + MonthLength(y, mm)
    IN DateText(y, m, r - DaysBeforeMonth(y, m))

\* dt.isoweekday(): Monday is 1, Sunday is 7.
isoweekday(n) == ((n - 1) % 7) + 1

\* dt.replace(day=1)
FirstOfMonth(n) == LET t == strftime(n) IN strptime(DateText(t.y, t.m, 1))

\* datetime(dt.year, dt.month, calendar.monthrange(dt.year, dt.month)[1])
LastOfMonthNoLeap(n) ==
    LET t == strftime(n) IN strptime(DateText(t.y, t.m, MonthLengthNoLeap(t.y, t.m)))
LastOfMonth(n) ==
    LET t == strftime(n) IN strptime(DateText(t.y, t.m, MonthLength(t.y, t.m)))

\* The days from a to b, both included; none when a > b.
DaysExclusive(a, b) == [i \in 1..(IF b > a THEN b - a ELSE 0) |-> a + i - 1]
Days(a, b) == [i \in 1..(IF b >= a THEN b - a + 1 ELSE 0) |-> a + i - 1]

IsSunday(n) == isoweekday(n) = 7
IsMonthStart(n) == strftime(n).d = 1

\* pd.date_range(start, end, freq=...).tolist(): freq "D" gives every day
\* of [start, end], "W" (weeks anchored on Sunday) every Sunday in it, "MS"
\* every first of a month in it.
date_range(a, b, freq) ==
    IF freq = "D" THEN Days(a, b)
    ELSE IF freq = "W" THEN SelectSeq(Days(a, b), IsSunday)
    ELSE SelectSeq(Days(a, b), IsMonthStart)

\* ------------------------------------ ga_api_split_request_date_batch_freq
Range(s, e) == [start_date |-> s, end_date |-> e]

\* batch_freq is None: one batch, the two dates parsed and formatted back.
NoBatchStartOnly(start_date, end_date) ==
    <<Range(strftime(strptime(start_date)), strftime(strptime(start_date)))>>
NoBatch(start_date, end_date) ==
    <<Range(strftime(strptime(start_date)), strftime(strptime(end_date)))>>

\* batch_freq == "daily"
DailyBatches(start_date, end_date) ==
    LET date_range_list == date_range(strptime(start_date), strptime(end_date), "D")
    IN [i \in DOMAIN date_range_list |->
           LET date == strftime(date_range_list[i]) IN Range(date, date)]

\* timedelta(days=(start_date_dt.isoweekday() % 7)): back to the Sunday.
WeekStartOffsetMonday(iso) == iso - 1
WeekStartOffset(iso) == iso % 7

\* timedelta(days=((13 - dt.isoweekday()) % 7)): on to the Saturday.
WeekEndOffsetOffByOne(iso) == (12 - iso) % 7
WeekEndOffsetNextWeek(iso) == ((13 - iso) % 7) + 7
WeekEndOffset(iso) == (13 - iso) % 7

\* batch_freq == "weekly"
WeeklyBatches(start_date, end_date) ==
    LET start_date_dt == strptime(start_date)
        end_date_dt == strptime(end_date)
        new_start_date ==
            IF isoweekday(start_date_dt) # 7
            THEN strftime(start_date_dt - WeekStartOffset(isoweekday(start_date_dt)))
            ELSE start_date
        new_end_date ==
            IF isoweekday(end_date_dt) # 6
            THEN strftime(end_date_dt + WeekEndOffset(isoweekday(end_date_dt)))
            ELSE end_date
        date_range_list ==
            date_range(strptime(new_start_date), strptime(new_end_date), "W")
    IN [i \in DOMAIN date_range_list |->
           LET date == date_range_list[i] IN
           Range(strftime(date), strftime(date + WeekEndOffset(isoweekday(date))))]

\* batch_freq == "monthly"
MonthlyBatches(start_date, end_date) ==
    LET start_date_dt == strptime(start_date)
        end_date_dt == strptime(end_date)
        new_start_date ==
            IF strftime(start_date_dt).d # 1
            THEN strftime(FirstOfMonth(start_date_dt))
            ELSE start_date
        end_date_month_last_day_dt == LastOfMonth(end_date_dt)
        new_end_date ==
            IF end_date_dt # end_date_month_last_day_dt
            THEN strftime(end_date_month_last_day_dt)
            ELSE end_date
        date_range_list ==
            date_range(strptime(new_start_date), strptime(new_end_date), "MS")
    IN [i \in DOMAIN date_range_list |->
           LET date == date_range_list[i] IN
           Range(strftime(date), strftime(LastOfMonth(date)))]

\* The function: [error, batch_date_list].  strptime raises ValueError on a
\* text that names no day; nothing else in the function raises, and a
\* batch_freq that no branch matches leaves batch_date_list empty.
StrptimeRaises(start_date, end_date) ==
    ~ValidDate(start_date) \/ ~ValidDate(end_date)

ga_api_split_request_date_batch_freq(start_date, end_date, batch_freq) ==
    IF StrptimeRaises(start_date, end_date)
    THEN [error |-> "ValueError", batch_date_list |-> <<>>]
    ELSE [error |-> "",
          batch_date_list |->
              IF batch_freq = "None" THEN NoBatch(start_date, end_date)
              ELSE IF batch_freq = "daily" THEN DailyBatches(start_date, end_date)
              ELSE IF batch_freq = "weekly" THEN WeeklyBatches(start_date, end_date)
              ELSE IF batch_freq = "monthly" THEN MonthlyBatches(start_date, end_date)
              ELSE <<>>]

\* ------------------------------------------------- payloads of a request
Template(i, batch_freq) == [name |-> i, batch_freq |-> batch_freq]

\* template['date_range_batches'] = batch_date_list
WithBatches(template, batch_date_list) ==
    [date_range_batches |-> batch_date_list] @@ template

\* dict.pop(key)
PopNothing(d, key) == d
Pop(d, key) == [k \in DOMAIN d \ {key} |-> d[k]]

\* payload.update(template); payload.pop('date_range_batches'); then the
\* two dates of the batch are set.
Payload(template, batch) ==
    [start_date |-> batch.start_date, end_date |-> batch.end_date]
    @@ Pop(template, "date_range_batches")

RECURSIVE PayloadsOf(_, _, _)
\* for template in combined_template_list:
\*     for date_range in template['date_range_batches']: ...
\* from template i on.
PayloadsOf(templates, batches, i) ==
    IF i > Len(templates) THEN <<>>
    ELSE [k \in DOMAIN batches[i] |->
             Payload(WithBatches(templates[i], batches[i]), batches[i][k])]
         \o PayloadsOf(templates, batches, i + 1)

\* ------------------------------------------------------------ the request
\* A request body: json is whether get_json gave a JSON object, sections
\* the top-level keys it has, fields the <<section, key>> pairs it has,
\* and the two dates it carries (NoDate for a date it does not carry).
Sections == {"config_files_location", "ga_account_criteria", "date_range_criteria"}

RequestFields ==
    {<<"config_files_location", "bucket">>,
     <<"config_files_location", "auth_blob">>,
     <<"config_files_location", "config_blob">>,
     <<"ga_account_criteria", "view_id">>,
     <<"date_range_criteria", "start_date">>,
     <<"date_range_criteria", "end_date">>}

NoDate == DateText(0, 0, 0)

RequestOf(S, F, s, e) ==
    [json |-> TRUE, sections |-> S, fields |-> F, start_date |-> s, end_date |-> e]

NoJson ==
    [json |-> FALSE, sections |-> {}, fields |-> {}, start_date |-> NoDate,
     end_date |-> NoDate]

CompleteRequest(s, e) == RequestOf(Sections, RequestFields, s, e)

\* The subscriptions of the try block, in the order they are evaluated.
RequiredLookupsButEndDate ==
    <<<<"config_files_location", "bucket">>,
      <<"config_files_location", "auth_blob">>,
      <<"config_files_location", "config_blob">>,
      <<"ga_account_criteria", "view_id">>,
      <<"date_range_criteria", "start_date">>>>
RequiredLookups ==
    <<<<"config_files_location", "bucket">>,
      <<"config_files_location", "auth_blob">>,
      <<"config_files_location", "config_blob">>,
      <<"ga_account_criteria", "view_id">>,
      <<"date_range_criteria", "start_date">>,
      <<"date_range_criteria", "end_date">>>>

RECURSIVE KeyErrorFrom(_, _)
\* The key of the KeyError the try block raises from lookup i on, "" when
\* every lookup finds its key: request_data[section] fails on an absent
\* section, [key] on an absent key of a section that is there.
KeyErrorFrom(req, i) ==
    IF i > Len(RequiredLookups) THEN ""
    ELSE LET l == RequiredLookups[i] IN
         IF l[1] \notin req.sections THEN l[1]
         ELSE IF l \notin req.fields THEN l[2]
         ELSE KeyErrorFrom(req, i + 1)

\* Nothing returned yet; the responses are records of one shape, status ""
\* standing for a response that is a bare text.
NoReturn == [status |-> "", message |-> "", key |-> "", request_data |-> NoJson]

\* ------------------------------------------------------------ dispatcher
RECURSIVE StartTasks(_, _)
\* Every task's first step, in creation order: rate limiter entered, loop
\* variables set, first session.post issued.
StartTasks(k, c) ==
    IF k > Len(payload_list) THEN c ELSE StartTasks(k + 1, Connect(k, c))

\* async_requests up to the end of the TaskGroup body: one task per payload.
\* The tasks first run when the parent awaits in TaskGroup.__aexit__, before
\* any network event is handled.
CreateTasks ==
    /\ dpc = "start"
    /\ dpc' = "taskgroup"
    /\ SetNet(StartTasks(1, Net))
    /\ rate_limit' = [j \in Jobs |-> 1]
    /\ UNCHANGED <<PlannerVars, payload_list, aborting, retries, response_status, response,
                   result, task_results, visited, successful_data_loads,
                   failed_data_loads, return_dict, results, outcomes>>

\* The state when async_requests is called with n payloads.  Called(n) is
\* that state for a request of the n days from 2023-01-01 on and one
\* template, batched daily.
AsyncRequestsCalled(n) ==
    /\ payload_list = [i \in 1..n |-> i]
    /\ dpc = "start"
    /\ aborting = FALSE
    /\ pc = [j \in Jobs |-> "created"]
    /\ retries = [j \in Jobs |-> 0]
    /\ response_status = [j \in Jobs |-> FALSE]
    /\ response = [j \in Jobs |-> "unbound"]
    /\ result = [j \in Jobs |-> NoResult]
    /\ rate_limit = <<>>
    /\ acquired = {}
    /\ waiters = <<>>
    /\ task_results = {}
    /\ visited = {}
    /\ successful_data_loads = EmptyBag
    /\ failed_data_loads = EmptyBag
    /\ return_dict = [returned |-> FALSE, data_load_attempts |-> 0,
                      data_load_sucesses |-> 0, data_load_failures |-> 0]
    /\ results = "pending"
    /\ calls = [j \in Jobs |-> 0]
    /\ outcomes = [j \in Jobs |-> <<>>]

Called(n) ==
    /\ AsyncRequestsCalled(n)
    /\ ppc = "dispatch"
    /\ extract_start_date = DateText(2023, 1, 1)
    /\ extract_end_date = strftime(strptime(DateText(2023, 1, 1)) + n - 1)
    /\ combined_template_list = <<Template(1, "daily")>>
    /\ date_range_batches = <<DailyBatches(extract_start_date, extract_end_date)>>
    /\ payloads = PayloadsOf(combined_template_list, date_range_batches, 1)
    /\ request_json = CompleteRequest(extract_start_date, extract_end_date)
    /\ downloads = <<"auth_blob", "config_blob">>
    /\ return_data = NoReturn

Init == \E n \in 0..MaxJobs : Called(n)

\* ------------------------------------------- aiohttp_request_to_function
\* Variables no task step touches.
DispatcherVars == <<payload_list, dpc, aborting, rate_limit, visited,
                    successful_data_loads, failed_data_loads, return_dict, results,
                    PlannerVars>>

\* A task step is taken only by a task the TaskGroup has not cancelled.
Running(j) == dpc = "taskgroup" /\ j \in Jobs

\* Where a task is after a failed attempt: at await asyncio.sleep(1), the
\* next session.post not yet issued.
BackoffSkipped == "posting"
Backoff == "sleeping"

\* session.post returned a response with response.ok: response_status
\* becomes True and the task awaits response.text(), the connection still
\* in use.
ResponseOk(j) ==
    /\ Running(j) /\ pc[j] = "posting"
    /\ response' = [response EXCEPT ![j] = "ok"]
    /\ response_status' = [response_status EXCEPT ![j] = TRUE]
    /\ pc' = [pc EXCEPT ![j] = "reading"]
    /\ outcomes' = [outcomes EXCEPT ![j] = Append(@, "ok")]
    /\ UNCHANGED <<DispatcherVars, retries, result, acquired, waiters,
                   task_results, calls>>

\* session.post returned a response that is not ok: the task sleeps 1 s.
ResponseNotOk(j) ==
    /\ Running(j) /\ pc[j] = "posting"
    /\ response' = [response EXCEPT ![j] = "notok"]
    /\ response_status' = [response_status EXCEPT ![j] = FALSE]
    /\ SetNet(Release(j, [Net EXCEPT !.pc[j] = Backoff]))
    /\ outcomes' = [outcomes EXCEPT ![j] = Append(@, "notok")]
    /\ UNCHANGED <<DispatcherVars, retries, result, task_results>>

\* session.post raised aiohttp.ClientConnectionError: caught, the task
\* sleeps 1 s; response keeps whatever it held.
PostConnectionError(j) ==
    /\ Running(j) /\ pc[j] = "posting"
    /\ SetNet(Release(j, [Net EXCEPT !.pc[j] = Backoff]))
    /\ outcomes' = [outcomes EXCEPT ![j] = Append(@, "conn")]
    /\ UNCHANGED <<DispatcherVars, retries, response_status, response, result,
                   task_results>>

\* session.post raised an exception that is no ClientConnectionError: no
\* handler catches it and the task ends with that exception.
PostOtherError(j) ==
    /\ Running(j) /\ pc[j] = "posting"
    /\ SetNet(Release(j, [Net EXCEPT !.pc[j] = "raised"]))
    /\ outcomes' = [outcomes EXCEPT ![j] = Append(@, "error")]
    /\ task_results' = task_results \cup {j}
    /\ UNCHANGED <<DispatcherVars, retries, response_status, response, result>>

\* response.text() returned the body: the task returns it.
TextRead(j, body) ==
    /\ Running(j) /\ pc[j] = "reading"
    /\ result' = [result EXCEPT ![j] = TextResult(body)]
    /\ SetNet(Release(j, [Net EXCEPT !.pc[j] = "returned"]))
    /\ task_results' = task_results \cup {j}
    /\ UNCHANGED <<DispatcherVars, retries, response_status, response, outcomes>>

\* response.text() raised aiohttp.ClientConnectionError: caught like a
\* failed post, response_status staying True.
TextConnectionError(j) ==
    /\ Running(j) /\ pc[j] = "reading"
    /\ SetNet(Release(j, [Net EXCEPT !.pc[j] = Backoff]))
    /\ UNCHANGED <<DispatcherVars, retries, response_status, response, result,
                   task_results, outcomes>>

\* response.text() raised another exception (a payload error): uncaught.
TextOtherError(j) ==
    /\ Running(j) /\ pc[j] = "reading"
    /\ SetNet(Release(j, [Net EXCEPT !.pc[j] = "raised"]))
    /\ task_results' = task_results \cup {j}
    /\ UNCHANGED <<DispatcherVars, retries, response_status, response, result,
                   outcomes>>

\* while response_status is False and retries < retry
LoopContinuesOffByOne(status, r) == status = FALSE /\ r <= retry
LoopContinues(status, r) == status = FALSE /\ r < retry

\* asyncio.sleep(1) is over, retries += 1, and the loop goes round: the
\* next session.post is issued.
SleepRetry(j) ==
    /\ Running(j) /\ pc[j] = "sleeping"
    /\ LoopContinues(response_status[j], retries[j] + 1)
    /\ retries' = [retries EXCEPT ![j] = @ + 1]
    /\ SetNet(Connect(j, Net))
    /\ UNCHANGED <<DispatcherVars, response_status, response, result,
                   task_results, outcomes>>

\* asyncio.sleep(1) is over, retries += 1, and the loop ends: the failure
\* dictionary is built.  Its last entry reads response.status, which raises
\* UnboundLocalError when no post ever returned a response.
SleepGiveUp(j) ==
    /\ Running(j) /\ pc[j] = "sleeping"
    /\ ~LoopContinues(response_status[j], retries[j] + 1)
    /\ retries' = [retries EXCEPT ![j] = @ + 1]
    /\ IF response[j] = "unbound"
       THEN /\ pc' = [pc EXCEPT ![j] = "raised"]
            /\ UNCHANGED result
       ELSE /\ pc' = [pc EXCEPT ![j] = "returned"]
            /\ result' = [result EXCEPT ![j] = DictResult(retries[j] + 1)]
    /\ task_results' = task_results \cup {j}
    /\ UNCHANGED <<DispatcherVars, response_status, response, acquired,
                   waiters, calls, outcomes>>

\* The CancelledError the TaskGroup requested is thrown into the task at its
\* await: nothing catches it, the connection is given up.
CancelTask(j) ==
    /\ Running(j) /\ pc[j] = "cancelling"
    /\ pc' = [pc EXCEPT ![j] = "cancelled"]
    /\ acquired' = acquired \ {j}
    /\ task_results' = task_results \cup {j}
    /\ UNCHANGED <<DispatcherVars, retries, response_status, response, result,
                   waiters, calls, outcomes>>

\* ------------------------------------------------------------ TaskGroup
TaskVars == <<retries, response_status, response, result, calls, outcomes>>

ErrorsSwallowed == {}
Errors == {j \in Jobs : pc[j] = "raised"}

\* TaskGroup._on_task_done for the first child that raised: every child
\* still running is cancelled.
TaskGroupAbort ==
    /\ dpc = "taskgroup" /\ ~aborting /\ Errors # {}
    /\ aborting' = TRUE
    /\ pc' = [j \in Jobs |-> IF TaskDone(j) THEN pc[j] ELSE "cancelling"]
    /\ waiters' = <<>>
    /\ UNCHANGED <<PlannerVars, payload_list, dpc, rate_limit, acquired, task_results,
                   visited, successful_data_loads, failed_data_loads, return_dict,
                   results, TaskVars>>

\* json.loads(result): a str parses to the JSON it holds or raises
\* JSONDecodeError; anything that is no str raises TypeError.
JsonLoads(r) ==
    IF r.type # "text" THEN [error |-> "TypeError", status |-> ""]
    ELSE IF r.body = "malformed" THEN [error |-> "JSONDecodeError", status |-> ""]
    ELSE [error |-> "", status |-> r.body]

Summary ==
    [returned |-> TRUE,
     data_load_attempts |-> Len(payload_list),
     data_load_sucesses |-> BagCardinality(successful_data_loads),
     data_load_failures |-> BagCardinality(failed_data_loads)]

\* TaskGroup.__aexit__ leaves once every child is done.
AllTasksDoneNotAwaited == TRUE
AllTasksDone == \A j \in Jobs : TaskDone(j)

\* The TaskGroup ended without error: the result loop starts.
TaskGroupExit ==
    /\ dpc = "taskgroup" /\ AllTasksDone /\ Errors = {}
    /\ dpc' = "loop"
    /\ UNCHANGED <<PlannerVars, payload_list, aborting, pc, rate_limit, acquired, waiters,
                   task_results, visited, successful_data_loads,
                   failed_data_loads, return_dict, results, TaskVars>>

\* The result is appended to failed_data_loads when it is None.
AppendIfNone(r, failed, j) ==
    IF r.type = "none" THEN failed (+) SetToBag({j}) ELSE failed

StatusIsSuccessBang(status) == status = "Success!"
StatusIsSuccess(status) == status = "Success"

\* One round of the result loop, for the next entry of task_results.
\* json.loads may raise, and nothing in async_requests catches what it
\* raises.
ResultLoop(j) ==
    /\ dpc = "loop" /\ j \in task_results \ visited
    /\ visited' = visited \cup {j}
    /\ LET r == result[j]
           failed == AppendIfNone(r, failed_data_loads, j)
           result_json == JsonLoads(r)
       IN IF result_json.error # ""
          THEN /\ dpc' = "raised"
               /\ failed_data_loads' = failed
               /\ UNCHANGED successful_data_loads
          ELSE /\ dpc' = dpc
               /\ IF StatusIsSuccess(result_json.status)
                  THEN /\ successful_data_loads' = successful_data_loads (+) SetToBag({j})
                       /\ failed_data_loads' = failed
                  ELSE /\ failed_data_loads' = failed (+) SetToBag({j})
                       /\ UNCHANGED successful_data_loads
    /\ UNCHANGED <<PlannerVars, payload_list, aborting, pc, rate_limit, acquired, waiters,
                   task_results, return_dict, results, TaskVars>>

\* The result loop is over: the summary is built and returned.
ReturnSummary ==
    /\ dpc = "loop" /\ visited = task_results
    /\ dpc' = "returned"
    /\ return_dict' = Summary
    /\ UNCHANGED <<PlannerVars, payload_list, aborting, pc, rate_limit, acquired, waiters,
                   task_results, visited, successful_data_loads,
                   failed_data_loads, results, TaskVars>>

\* The TaskGroup raised the ExceptionGroup of its children's errors: it is
\* printed, and the summary is built from the two lists, still empty.
CatchExceptionGroup ==
    /\ dpc = "taskgroup" /\ AllTasksDone /\ Errors # {}
    /\ dpc' = "returned"
    /\ return_dict' = Summary
    /\ UNCHANGED <<PlannerVars, payload_list, aborting, pc, rate_limit, acquired, waiters,
                   task_results, visited, successful_data_loads,
                   failed_data_loads, results, TaskVars>>

\* ------------------------------------------------- prep_request_batches
\* results = asyncio.run(async_requests(payload_list)) returned: the status
\* is set and the summary is the response.
ReturnResults ==
    /\ dpc = "returned" /\ results = "pending"
    /\ results' = "Success!"
    /\ UNCHANGED <<PlannerVars, payload_list, dpc, aborting, pc, rate_limit, acquired,
                   waiters, task_results, visited, successful_data_loads,
                   failed_data_loads, return_dict, TaskVars>>

\* asyncio.run re-raised what async_requests raised: prep_request_batches
\* has no handler.
PropagateError ==
    /\ dpc = "raised" /\ results = "pending"
    /\ results' = "exception"
    /\ UNCHANGED <<PlannerVars, payload_list, dpc, aborting, pc, rate_limit, acquired,
                   waiters, task_results, visited, successful_data_loads,
                   failed_data_loads, return_dict, TaskVars>>

\* ---------------------------------------------------------- specification
WorkStep(j) ==
    \/ ResponseOk(j)
    \/ ResponseNotOk(j)
    \/ PostConnectionError(j)
    \/ PostOtherError(j)
    \/ \E body \in Bodies : TextRead(j, body)
    \/ TextConnectionError(j)
    \/ TextOtherError(j)
    \/ SleepRetry(j)
    \/ SleepGiveUp(j)

TaskStep(j) == WorkStep(j) \/ CancelTask(j)

DispatcherStep ==
    \/ CreateTasks
    \/ TaskGroupAbort
    \/ TaskGroupExit
    \/ ReturnSummary
    \/ CatchExceptionGroup
    \/ ReturnResults
    \/ PropagateError

Next == DispatcherStep \/ \E j \in 1..MaxJobs : TaskStep(j) \/ ResultLoop(j)

Spec == Init /\ [][Next]_vars

\* The connection-pool scenario: PoolJobs payloads, more than the connector
\* allows connections.  For the first payload every attempt may end in a
\* connection error or a response that is not ok, and an ok response may
\* carry any body; the worker answers the other payloads 200 with status
\* "Success".
InitPool == Called(PoolJobs)

HealthyStep(j) ==
    \/ ResponseOk(j)
    \/ TextRead(j, "Success")

FlakyStep(j) ==
    \/ ResponseOk(j)
    \/ ResponseNotOk(j)
    \/ PostConnectionError(j)
    \/ \E body \in Bodies : TextRead(j, body)
    \/ SleepRetry(j)
    \/ SleepGiveUp(j)

\* Cancellations commute (each touches its own task and its own connection)
\* and Spec takes them in every order; here they are delivered in task order.
CancelInOrder(j) ==
    /\ \A k \in 1..(j - 1) : pc[k] # "cancelling"
    /\ CancelTask(j)

NextPool ==
    \/ DispatcherStep
    \/ FlakyStep(1)
    \/ \E j \in 2..PoolJobs : HealthyStep(j)
    \/ \E j \in 1..PoolJobs : CancelInOrder(j) \/ ResultLoop(j)

SpecPool == InitPool /\ [][NextPool]_vars

\* ---------------------------------------------------- prep_request_batches
\* The request's dates: the WindowDays + 1 days from the Saturday before
\* the end of a leap February on, the two days around the turn of the year
\* before it, and BadDate, a text of the right shape that names no day.
Anchors == {DateText(2024, 2, 24)}
YearEnd == {DateText(2023, 12, 31), DateText(2024, 1, 1)}
BadDate == DateText(2023, 2, 30)
Dates ==
    {strftime(strptime(a) + k) : a \in Anchors, k \in 0..WindowDays}
    \cup YearEnd \cup {BadDate}

\* A template's batch_freq: "None" is a template without the key, "hourly"
\* a value the function has no branch for.
Frequencies == {"None", "daily", "weekly", "monthly", "hourly"}

TemplateLists ==
    UNION {[1..k -> Frequencies] : k \in 1..MaxTemplates}

\* async_requests has not been called.
AsyncRequestsUncalled ==
    /\ payload_list = <<>>
    /\ dpc = "uncalled"
    /\ aborting = FALSE
    /\ pc = <<>>
    /\ retries = <<>>
    /\ response_status = <<>>
    /\ response = <<>>
    /\ result = <<>>
    /\ rate_limit = <<>>
    /\ acquired = {}
    /\ waiters = <<>>
    /\ task_results = {}
    /\ visited = {}
    /\ successful_data_loads = EmptyBag
    /\ failed_data_loads = EmptyBag
    /\ return_dict = [returned |-> FALSE, data_load_attempts |-> 0,
                      data_load_sucesses |-> 0, data_load_failures |-> 0]
    /\ results = "pending"
    /\ calls = <<>>
    /\ outcomes = <<>>

\* The request has passed the required-field and empty-template checks, and
\* async_requests has not been called.
InitSplit ==
    /\ ppc = "batches"
    /\ extract_start_date \in Dates
    /\ extract_end_date \in Dates
    /\ \E f \in TemplateLists :
           combined_template_list = [i \in DOMAIN f |-> Template(i, f[i])]
    /\ date_range_batches = <<>>
    /\ payloads = <<>>
    /\ request_json = CompleteRequest(extract_start_date, extract_end_date)
    /\ downloads = <<"auth_blob", "config_blob">>
    /\ return_data = NoReturn
    /\ AsyncRequestsUncalled

AsyncVars == <<payload_list, dpc, aborting, pc, retries, response_status,
               response, result, rate_limit, acquired, waiters, task_results,
               visited, successful_data_loads, failed_data_loads, return_dict,
               results, calls, outcomes>>

\* The template the first loop is at, and what the function gives for it.
NextTemplate == Len(date_range_batches) + 1
Split(i) ==
    ga_api_split_request_date_batch_freq(extract_start_date, extract_end_date,
                                         combined_template_list[i].batch_freq)

\* One turn of the first loop: template['date_range_batches'] = batch_date_list.
DetermineBatches ==
    /\ ppc = "batches"
    /\ NextTemplate <= Len(combined_template_list)
    /\ ~StrptimeRaises(extract_start_date, extract_end_date)
    /\ date_range_batches' =
           Append(date_range_batches, Split(NextTemplate).batch_date_list)
    /\ UNCHANGED <<ppc, extract_start_date, extract_end_date,
                   combined_template_list, payloads, FrontVars, AsyncVars>>

\* The function raised: nothing catches it in prep_request_batches.
DetermineBatchesRaises ==
    /\ ppc = "batches"
    /\ NextTemplate <= Len(combined_template_list)
    /\ StrptimeRaises(extract_start_date, extract_end_date)
    /\ ppc' = "raised"
    /\ UNCHANGED <<extract_start_date, extract_end_date, combined_template_list,
                   date_range_batches, payloads, FrontVars, AsyncVars>>

\* The second loop builds payload_list and async_requests is called with it:
\* the state AsyncRequestsCalled describes, one job per payload.
BuildPayloads ==
    /\ ppc = "batches"
    /\ NextTemplate > Len(combined_template_list)
    /\ payloads' = PayloadsOf(combined_template_list, date_range_batches, 1)
    /\ ppc' = "dispatch"
    /\ payload_list' = [i \in 1..Len(payloads') |-> i]
    /\ dpc' = "start"
    /\ pc' = [j \in 1..Len(payloads') |-> "created"]
    /\ retries' = [j \in 1..Len(payloads') |-> 0]
    /\ response_status' = [j \in 1..Len(payloads') |-> FALSE]
    /\ response' = [j \in 1..Len(payloads') |-> "unbound"]
    /\ result' = [j \in 1..Len(payloads') |-> NoResult]
    /\ calls' = [j \in 1..Len(payloads') |-> 0]
    /\ outcomes' = [j \in 1..Len(payloads') |-> <<>>]
    /\ UNCHANGED <<aborting, rate_limit, acquired, waiters, task_results, visited,
                   successful_data_loads, failed_data_loads, return_dict, results>>
    /\ UNCHANGED <<extract_start_date, extract_end_date, combined_template_list,
                   date_range_batches, FrontVars>>

NextSplit == DetermineBatches \/ DetermineBatchesRaises \/ BuildPayloads

SpecSplit == InitSplit /\ [][NextSplit]_vars

\* ------------------------------------- prep_request_batches, from the top
\* The requests: no JSON body, or a body with any of the three sections and
\* any of their required keys; a date it carries is one of RequestDates.
RequestDates == Anchors \cup YearEnd \cup {BadDate}

Shapes ==
    {sf \in (SUBSET Sections) \X (SUBSET RequestFields) :
        \A f \in sf[2] : f[1] \in sf[1]}

DatesOf(F, key) ==
    IF <<"date_range_criteria", key>> \in F THEN RequestDates ELSE {NoDate}

Requests ==
    {NoJson} \cup
    UNION {{RequestOf(sf[1], sf[2], s, e) :
               s \in DatesOf(sf[2], "start_date"), e \in DatesOf(sf[2], "end_date")} :
           sf \in Shapes}

InitRequest ==
    /\ ppc = "request"
    /\ request_json \in Requests
    /\ downloads = <<>>
    /\ return_data = NoReturn
    /\ extract_start_date = NoDate
    /\ extract_end_date = NoDate
    /\ combined_template_list = <<>>
    /\ date_range_batches = <<>>
    /\ payloads = <<>>
    /\ AsyncRequestsUncalled

\* if request_json is None: return "No request payload"
NoRequestPayload ==
    /\ ppc = "request"
    /\ ~request_json.json
    /\ ppc' = "returned"
    /\ return_data' = [NoReturn EXCEPT !.message = "No request payload"]
    /\ UNCHANGED <<extract_start_date, extract_end_date, combined_template_list,
                   date_range_batches, payloads, request_json, downloads, AsyncVars>>

\* A lookup of the try block raised KeyError: the Failed response is
\* returned, its message naming the key and request_data echoed.
RequiredNotSet ==
    /\ ppc = "request"
    /\ request_json.json
    /\ KeyErrorFrom(request_json, 1) # ""
    /\ ppc' = "returned"
    /\ return_data' = [status |-> "Failed",
                       message |-> "A required variable was not set",
                       key |-> KeyErrorFrom(request_json, 1),
                       request_data |-> request_json]
    /\ UNCHANGED <<extract_start_date, extract_end_date, combined_template_list,
                   date_range_batches, payloads, request_json, downloads, AsyncVars>>

\* Every lookup found its key: the dates are taken from the request.
RequiredSet ==
    /\ ppc = "request"
    /\ request_json.json
    /\ KeyErrorFrom(request_json, 1) = ""
    /\ extract_start_date' = request_json.start_date
    /\ extract_end_date' = request_json.end_date
    /\ ppc' = "auth"
    /\ UNCHANGED <<combined_template_list, date_range_batches, payloads,
                   FrontVars, AsyncVars>>

\* download_blob(config_file_bucket, config_file_auth_blob, '/tmp/auth.json')
DownloadAuth ==
    /\ ppc = "auth"
    /\ downloads' = Append(downloads, "auth_blob")
    /\ ppc' = "config"
    /\ UNCHANGED <<extract_start_date, extract_end_date, combined_template_list,
                   date_range_batches, payloads, request_json, return_data,
                   AsyncVars>>

\* download_blob(config_file_bucket, config_file_blob, '/tmp/config.yaml')
DownloadConfig ==
    /\ ppc = "config"
    /\ downloads' = Append(downloads, "config_blob")
    /\ ppc' = "templates"
    /\ UNCHANGED <<extract_start_date, extract_end_date, combined_template_list,
                   date_range_batches, payloads, request_json, return_data,
                   AsyncVars>>

\* A download (or reading the config) raised: nothing catches it.
DownloadRaises ==
    /\ ppc \in {"auth", "config"}
    /\ ppc' = "raised"
    /\ UNCHANGED <<extract_start_date, extract_end_date, combined_template_list,
                   date_range_batches, payloads, FrontVars, AsyncVars>>

\* The request and the config select no template: the Failed response.
NoTemplates ==
    /\ ppc = "templates"
    /\ ppc' = "returned"
    /\ return_data' = [status |-> "Failed",
                       message |-> "The request data did not include any templates",
                       key |-> "",
                       request_data |-> request_json]
    /\ UNCHANGED <<extract_start_date, extract_end_date, combined_template_list,
                   date_range_batches, payloads, request_json, downloads, AsyncVars>>

\* The request and the config select the templates of combined_template_list.
TemplatesCombined ==
    /\ ppc = "templates"
    /\ \E f \in TemplateLists :
           combined_template_list' = [i \in DOMAIN f |-> Template(i, f[i])]
    /\ ppc' = "batches"
    /\ UNCHANGED <<extract_start_date, extract_end_date, date_range_batches,
                   payloads, FrontVars, AsyncVars>>

NextRequest ==
    \/ NoRequestPayload
    \/ RequiredNotSet
    \/ RequiredSet
    \/ DownloadAuth
    \/ DownloadConfig
    \/ DownloadRaises
    \/ NoTemplates
    \/ TemplatesCombined
    \/ NextSplit

SpecRequest == InitRequest /\ [][NextRequest]_vars

\* ================================================================ claims
\* async_requests has ended, by returning or by raising.
Finished == dpc \in {"returned", "raised"}

\* Every one of the job's three attempts got a response that is not ok.
AllNonSuccess(j) == outcomes[j] = <<"notok", "notok", "notok">>

\* Every one of the job's three attempts ended in a connection error.
AllConnectionErrors(j) == outcomes[j] = <<"conn", "conn", "conn">>

CountedAsFailure(j) ==
    /\ return_dict.returned
    /\ CopiesIn(j, failed_data_loads) = 1
    /\ CopiesIn(j, successful_data_loads) = 0
    /\ return_dict.data_load_failures = BagCardinality(failed_data_loads)

\* C1: a job whose 3 attempts all got a non-success response was sent to the
\* worker exactly 3 times, and the summary the dispatcher returns counts it
\* exactly once in failures and not in successes.
C1_ExhaustedJobCountedOnce ==
    \A j \in Jobs :
        (Finished /\ AllNonSuccess(j)) => (calls[j] = 3 /\ CountedAsFailure(j))

\* C2: when one job's task has raised, no sibling task is cancelled.
C2_NoSiblingCancelled ==
    \A j, k \in Jobs :
        (j # k /\ pc[j] = "raised") => pc[k] \notin {"cancelling", "cancelled"}

\* C3: dispatch never raises to its caller, and the entry point always
\* returns a response with a status.
C3_DispatchNeverRaises == dpc # "raised" /\ results # "exception"

\* C4: a job whose 3 attempts all ended in connection errors does not raise
\* out of its task: it is a terminal failure, counted once in failures.
C4_ConnectionErrorsAreTerminalFailure ==
    \A j \in Jobs :
        AllConnectionErrors(j) =>
            /\ pc[j] # "raised"
            /\ Finished => CountedAsFailure(j)

\* The job's last attempt got an ok response whose body says "Success".
Succeeded(j) ==
    /\ outcomes[j] # <<>>
    /\ outcomes[j][Len(outcomes[j])] = "ok"
    /\ result[j] = TextResult("Success")

\* C5: in every returned summary attempts is the number of jobs, successes
\* the number of jobs whose final attempt succeeded, and failures is
\* attempts - successes.
C5_SummaryTallies ==
    return_dict.returned =>
        /\ return_dict.data_load_attempts = Len(payload_list)
        /\ return_dict.data_load_sucesses = Cardinality({j \in Jobs : Succeeded(j)})
        /\ return_dict.data_load_failures =
               return_dict.data_load_attempts - return_dict.data_load_sucesses

RECURSIVE SumOver(_, _)
SumOver(f, S) ==
    IF S = {} THEN 0
    ELSE LET x == CHOOSE y \in S : TRUE IN f[x] + SumOver(f, S \ {x})

\* C6: one rate limiter is shared by all job tasks, every request sent to
\* the worker (retries included) takes one unit of its capacity, and no more
\* than 600 requests are sent in the window (no time passes in the model:
\* the whole dispatch lies in one window and no capacity flows back).
C6_SharedRateLimit ==
    /\ Cardinality(DOMAIN rate_limit) <= 1
    /\ SumOver(calls, Jobs) <= SumOver(rate_limit, DOMAIN rate_limit)
    /\ SumOver(calls, Jobs) <= max_rate

\* C7: never more than 8 downstream calls hold a connection at once.
C7_AtMostEightConnections == Cardinality(acquired) <= ConnLimit

\* C7 witness: the pool is full and a job that is retrying is queued for a
\* connection.
C7_PoolFullAndQueued ==
    /\ Cardinality(acquired) = ConnLimit
    /\ \E j \in Jobs : pc[j] = "waiting" /\ retries[j] >= 1

\* C8: a job is sent to the worker at most 3 times, and the attempt that got
\* an ok response is the job's last.
C8_AtMostThreeAttemptsNoneAfterOk ==
    \A j \in Jobs :
        /\ calls[j] <= 3
        /\ \A i \in 1..Len(outcomes[j]) : outcomes[j][i] = "ok" => i = calls[j]

\* C8 witness: a job got an ok response at its third attempt and its task is
\* over.
C8_OkAtThirdAttempt ==
    \E j \in Jobs :
        /\ outcomes[j] = <<"notok", "conn", "ok">>
        /\ TaskDone(j)
        /\ calls[j] = 3

\* What the worker answered makes the job a failed one.
JobFailed(j) ==
    \/ AllNonSuccess(j)
    \/ result[j] = TextResult("Failed")
    \/ result[j] = TextResult("malformed")

\* C9: a job answered non-2xx at all attempts, or 2xx with a status other
\* than "Success", or 2xx with a body that is not JSON, is counted in
\* failures, never in successes, in the summary the dispatcher returns.
C9_FailedJobInFailures ==
    \A j \in Jobs :
        (Finished /\ JobFailed(j)) =>
            /\ return_dict.returned
            /\ CopiesIn(j, failed_data_loads) >= 1
            /\ CopiesIn(j, successful_data_loads) = 0
            /\ return_dict.data_load_failures >= 1

\* C10: when dispatch has returned, every job whose task did not itself
\* raise has got an ok response or has used up its 3 attempts.
C10_ReturnedAfterEveryJobRan ==
    dpc = "returned" =>
        \A j \in Jobs :
            pc[j] # "raised" =>
                \/ \E i \in 1..Len(outcomes[j]) : outcomes[j][i] = "ok"
                \/ retries[j] = retry

\* C11: async_requests has not left the TaskGroup (to tally, to return or to
\* raise) while a task it created is still running: every child has
\* returned, raised or been cancelled.
C11_NoReturnBeforeChildrenDone ==
    dpc \in {"loop", "returned", "raised"} => \A j \in Jobs : TaskDone(j)

\* C11 witness: dispatch has returned its summary after one child raised
\* and another was cancelled.
C11_ReturnedAfterCancellation ==
    /\ dpc = "returned"
    /\ \E j, k \in Jobs : pc[j] = "raised" /\ pc[k] = "cancelled"

\* Every job got an ok response with status "Success" at its first attempt.
AllSucceedAtFirstAttempt ==
    \A j \in Jobs : outcomes[j] = <<"ok">> /\ result[j] = TextResult("Success")

\* C12: when all N jobs succeed at their first attempt, dispatch returns
\* attempts = N, successes = N, failures = 0, whatever the completion order.
C12_AllSucceedSummary ==
    (Finished /\ AllSucceedAtFirstAttempt) =>
        return_dict = [returned |-> TRUE,
                       data_load_attempts |-> Len(payload_list),
                       data_load_sucesses |-> Len(payload_list),
                       data_load_failures |-> 0]

\* C12 witness: two jobs, both succeeded at the first attempt, summary
\* returned.
C12_TwoJobsSucceeded ==
    /\ Len(payload_list) = 2
    /\ AllSucceedAtFirstAttempt
    /\ dpc = "returned"

\* ------------------------------------------------- claims on the batches
\* The requested dates as days, for a request whose two texts name days.
ValidRequest == ValidDate(extract_start_date) /\ ValidDate(extract_end_date)
start_date_dt == strptime(extract_start_date)
end_date_dt == strptime(extract_end_date)
Inverted == ValidRequest /\ start_date_dt > end_date_dt
Ordered == ValidRequest /\ start_date_dt <= end_date_dt

\* The templates the function has returned for, by batch_freq.
Returned(freq) ==
    {i \in DOMAIN date_range_batches : combined_template_list[i].batch_freq = freq}
Recognized == {"None", "daily", "weekly", "monthly"}

\* A range's two ends as days.
S(r) == strptime(r.start_date)
E(r) == strptime(r.end_date)

SundayOnOrBefore(n) == CHOOSE s \in (n - 6)..n : isoweekday(s) = 7
SaturdayOnOrAfter(n) == CHOOSE s \in n..(n + 6) : isoweekday(s) = 6
MonthStartOnOrBefore(n) == CHOOSE s \in (n - 30)..n : strftime(s).d = 1
MonthEndOnOrAfter(n) == CHOOSE s \in n..(n + 30) : strftime(s + 1).d = 1

\* C13 (as claimed): with start_date after end_date the function fails with
\* InvalidDateRange for every frequency, and so returns no sequence of
\* ranges, empty or not, to the planner.
C13_InvertedRangeNeverReturns ==
    Inverted => date_range_batches = <<>>

\* C14 (as claimed): a frequency other than none, daily, weekly, monthly
\* makes the function fail with InvalidFrequency, so the planner never
\* records a list of batches, empty or not, for such a template.
C14_UnknownFrequencyNeverReturns ==
    \A i \in DOMAIN date_range_batches :
        combined_template_list[i].batch_freq \in Recognized

\* C15 (as claimed): every payload's date range lies within the requested
\* [start_date, end_date], whatever its template's batch_freq.
C15_PayloadWithinRequest ==
    (ppc = "dispatch" /\ ValidRequest) =>
        \A k \in DOMAIN payloads :
            start_date_dt <= S(payloads[k]) /\ E(payloads[k]) <= end_date_dt

\* C15 (amended): every payload's date range lies within the requested
\* [start_date, end_date] when its template is not batched or batched
\* daily, within that range widened to whole weeks (back to a Sunday, on to
\* a Saturday) when batched weekly, and widened to whole months when
\* batched monthly.
C15_PayloadWithinWidenedRequest ==
    (ppc = "dispatch" /\ ValidRequest) =>
        \A k \in DOMAIN payloads :
            LET f == payloads[k].batch_freq
                lo == IF f = "weekly" THEN SundayOnOrBefore(start_date_dt)
                      ELSE IF f = "monthly" THEN MonthStartOnOrBefore(start_date_dt)
                      ELSE start_date_dt
                hi == IF f = "weekly" THEN SaturdayOnOrAfter(end_date_dt)
                      ELSE IF f = "monthly" THEN MonthEndOnOrAfter(end_date_dt)
                      ELSE end_date_dt
            IN lo <= S(payloads[k]) /\ E(payloads[k]) <= hi

\* A weekly payload and a monthly payload, each reaching outside the
\* requested range, were built for dispatch.
C15_WidenedPayloadsBuilt ==
    /\ ppc = "dispatch"
    /\ Ordered
    /\ \E k \in DOMAIN payloads :
           payloads[k].batch_freq = "weekly" /\ S(payloads[k]) < start_date_dt
    /\ \E k \in DOMAIN payloads :
           payloads[k].batch_freq = "monthly" /\ E(payloads[k]) > end_date_dt

\* C16: for valid start <= end batched weekly, every range starts on a
\* Sunday and ends on the Saturday 6 days later, consecutive ranges start 7
\* days apart, the first starts on the Sunday on or before start, the last
\* ends on the Saturday on or after end, and every requested day is in one.
C16_WeeklyBatchesAreWholeWeeks ==
    Ordered =>
        \A i \in Returned("weekly") :
            LET B == date_range_batches[i] IN
            /\ Len(B) >= 1
            /\ \A k \in DOMAIN B : isoweekday(S(B[k])) = 7 /\ E(B[k]) = S(B[k]) + 6
            /\ \A k \in 1..(Len(B) - 1) : S(B[k + 1]) = S(B[k]) + 7
            /\ S(B[1]) = SundayOnOrBefore(start_date_dt)
            /\ E(B[Len(B)]) = SaturdayOnOrAfter(end_date_dt)
            /\ \A d \in start_date_dt..end_date_dt :
                   \E k \in DOMAIN B : S(B[k]) <= d /\ d <= E(B[k])

\* A weekly split of a range that starts midweek, ends midweek and needs
\* more than one week.
C16_SeveralWeeksMidweek ==
    /\ Ordered
    /\ isoweekday(start_date_dt) \notin {6, 7}
    /\ isoweekday(end_date_dt) \notin {6, 7}
    /\ \E i \in Returned("weekly") : Len(date_range_batches[i]) >= 2

\* C17: for valid start <= end batched monthly, every range runs from the
\* 1st to the last day of one calendar month, consecutive ranges are
\* consecutive months, the first is the month of start and the last the
\* month of end.
C17_MonthlyBatchesAreWholeMonths ==
    Ordered =>
        \A i \in Returned("monthly") :
            LET B == date_range_batches[i] IN
            /\ Len(B) >= 1
            /\ \A k \in DOMAIN B :
                   /\ B[k].start_date.d = 1
                   /\ B[k].start_date.y = B[k].end_date.y
                   /\ B[k].start_date.m = B[k].end_date.m
                   /\ strftime(E(B[k]) + 1).d = 1
            /\ \A k \in 1..(Len(B) - 1) : S(B[k + 1]) = E(B[k]) + 1
            /\ S(B[1]) <= start_date_dt /\ start_date_dt <= E(B[1])
            /\ S(B[Len(B)]) <= end_date_dt /\ end_date_dt <= E(B[Len(B)])

\* A monthly split that crosses the year's end and a leap February.
C17_MonthsOverLeapFebruary ==
    /\ Ordered
    /\ \E i \in Returned("monthly") :
           LET B == date_range_batches[i] IN
           /\ Len(B) >= 3
           /\ B[1].start_date = DateText(2023, 12, 1)
           /\ \E k \in DOMAIN B :
                  B[k] = Range(DateText(2024, 2, 1), DateText(2024, 2, 29))

\* C18: for valid start <= end and a recognized frequency, the ranges are
\* in chronological order, contiguous and non-overlapping: each starts the
\* day after the previous one ends, and none ends before it starts.
C18_BatchesContiguous ==
    Ordered =>
        \A i \in DOMAIN date_range_batches :
            combined_template_list[i].batch_freq \in Recognized =>
                LET B == date_range_batches[i] IN
                /\ \A k \in DOMAIN B : S(B[k]) <= E(B[k])
                /\ \A k \in 1..(Len(B) - 1) : S(B[k + 1]) = E(B[k]) + 1

\* One request split weekly and monthly, each into several ranges.
C18_SeveralWeeksAndMonths ==
    /\ Ordered
    /\ \A f \in {"weekly", "monthly"} :
           \E i \in Returned(f) : Len(date_range_batches[i]) >= 2

\* C19: for valid start <= end batched daily, there are (end - start).days
\* + 1 ranges, each one day, in chronological order, the first at start
\* and the last at end.
C19_DailyBatchesOnePerDay ==
    Ordered =>
        \A i \in Returned("daily") :
            LET B == date_range_batches[i] IN
            /\ Len(B) = (end_date_dt - start_date_dt) + 1
            /\ \A k \in DOMAIN B :
                   /\ B[k].start_date = B[k].end_date
                   /\ S(B[k]) = start_date_dt + k - 1
            /\ B[1].start_date = extract_start_date
            /\ B[Len(B)].end_date = extract_end_date

\* A daily split over the end of February of a leap year.
C19_DailyOverLeapDay ==
    /\ Ordered
    /\ extract_end_date.m = 3
    /\ \E i \in Returned("daily") :
           \E k \in DOMAIN date_range_batches[i] :
               date_range_batches[i][k].start_date = DateText(2024, 2, 29)

\* C20: for valid start <= end and no batch frequency, there is exactly
\* one range, and it is [start, end].
C20_NoFrequencyOneRange ==
    Ordered =>
        \A i \in Returned("None") :
            date_range_batches[i] = <<Range(extract_start_date, extract_end_date)>>

\* An unbatched template's split of a range of more than one day.
C20_UnbatchedRangeReturned ==
    /\ Ordered
    /\ start_date_dt < end_date_dt
    /\ Returned("None") # {}

\* ------------------------------------------- claims on the caught group
SomeTaskRaised == \E j \in Jobs : pc[j] = "raised"

\* C24: if at least one job task ended by raising, the result loop is never
\* entered: the exception group is caught and the summary returned has
\* data_load_attempts = len(jobs), data_load_sucesses = 0 and
\* data_load_failures = 0, whatever the other jobs had got.
C24_CaughtGroupSummaryIsZero ==
    SomeTaskRaised =>
        /\ dpc \notin {"loop", "raised"}
        /\ results # "exception"
        /\ dpc = "returned" =>
               return_dict = [returned |-> TRUE,
                              data_load_attempts |-> Len(payload_list),
                              data_load_sucesses |-> 0,
                              data_load_failures |-> 0]

\* The summary was returned after one task raised and another had already
\* returned a body with status "Success".
C24_ReturnedWithASuccessUncounted ==
    /\ dpc = "returned"
    /\ SomeTaskRaised
    /\ \E k \in Jobs : pc[k] = "returned" /\ result[k] = TextResult("Success")

\* ------------------------------------------- claims on a job's attempts
\* The attempts job j has started (session.post called, the connection got
\* or still queued for), and whether one is in flight.
Started(j) == calls[j] + (IF pc[j] = "waiting" THEN 1 ELSE 0)
InFlight(j) == pc[j] \in {"waiting", "posting", "reading"}

\* C22: within one job the attempts are sequential and separated by the
\* backoff: an attempt is started only when the outcome of every earlier
\* one is known and the sleep after each of them has finished (retries
\* counts the finished sleeps), so at most one attempt is in flight.
C22_AttemptsSequentialAfterBackoff ==
    \A j \in Jobs :
        /\ Started(j) <= retries[j] + 1
        /\ Started(j) <= Len(outcomes[j]) + 1
        /\ Len(outcomes[j]) <= retries[j] + 1
        /\ InFlight(j) => Started(j) = retries[j] + 1
        /\ pc[j] \in {"waiting", "posting"} => Len(outcomes[j]) = retries[j]
        /\ pc[j] = "sleeping" => Started(j) = Len(outcomes[j])

\* A job's third attempt is in flight, after a non-success response and a
\* connection error, each followed by its sleep.
C22_ThirdAttemptInFlight ==
    \E j \in Jobs :
        /\ pc[j] = "posting"
        /\ calls[j] = 3
        /\ retries[j] = 2
        /\ outcomes[j] = <<"notok", "conn">>

\* ------------------------------------------------ claims on the request
\* The required fields, and those of them the request lacks (a field of a
\* section that is absent is absent).
RequiredFields ==
    {<<"config_files_location", "bucket">>,
     <<"config_files_location", "auth_blob">>,
     <<"config_files_location", "config_blob">>,
     <<"ga_account_criteria", "view_id">>,
     <<"date_range_criteria", "start_date">>,
     <<"date_range_criteria", "end_date">>}
Missing == RequiredFields \ request_json.fields

\* The key names a section the request lacks, or a required key lacking in
\* a section it has.
NamesMissing(key) ==
    \/ key \in Sections \ request_json.sections
    \/ \E f \in Missing : f[1] \in request_json.sections /\ f[2] = key

\* C21: when the JSON request lacks a required field, the function returns
\* the response with status "Failed" that names a missing key and echoes
\* the request, and no download, planning or dispatch step has happened.
C21_MissingFieldFailsBeforeAnyWork ==
    (request_json.json /\ Missing # {}) =>
        /\ ppc \in {"request", "returned"}
        /\ downloads = <<>>
        /\ combined_template_list = <<>>
        /\ date_range_batches = <<>>
        /\ payloads = <<>>
        /\ dpc = "uncalled"
        /\ ppc = "returned" =>
               /\ return_data.status = "Failed"
               /\ NamesMissing(return_data.key)
               /\ return_data.request_data = request_json

\* The Failed response for a request that lacks only its end_date.
C21_FailedOnEndDateAlone ==
    /\ ppc = "returned"
    /\ Missing = {<<"date_range_criteria", "end_date">>}
    /\ return_data.status = "Failed"
    /\ return_data.key = "end_date"

\* ------------------------------------------------ claims on the job list
\* The number of ranges the function returns for template i.
RangesOf(i) == Len(Split(i).batch_date_list)

RECURSIVE PayloadsFrom(_, _)
\* From template i on, whose payloads come after the first `before` ones:
\* the payloads of a template are one per range the function returns for
\* it, in order, each the template's name and batch_freq with that range's
\* two dates and nothing else.
PayloadsFrom(i, before) ==
    IF i > Len(combined_template_list) THEN before = Len(payloads)
    ELSE LET t == combined_template_list[i]
             ranges == Split(i).batch_date_list
         IN /\ before + Len(ranges) <= Len(payloads)
            /\ SubSeq(payloads, before + 1, before + Len(ranges)) =
                   [k \in DOMAIN ranges |->
                       [name |-> t.name, batch_freq |-> t.batch_freq,
                        start_date |-> ranges[k].start_date,
                        end_date |-> ranges[k].end_date]]
            /\ PayloadsFrom(i + 1, before + Len(ranges))

\* C23: the job list given to the dispatcher has one payload for each
\* selected template and each range the function returns for it, in that
\* order: its length, and so the attempts the summary reports for it, is
\* the sum of the numbers of ranges, and each payload is its template's
\* fields with one range's start_date and end_date and no
\* date_range_batches.
C23_OnePayloadPerTemplateAndBatch ==
    ppc = "dispatch" =>
        LET T == combined_template_list
            total == SumOver([i \in DOMAIN T |-> RangesOf(i)], DOMAIN T)
        IN /\ Len(payloads) = total
           /\ Len(payload_list) = total
           /\ Summary.data_load_attempts = total
           /\ PayloadsFrom(1, 0)

\* The list for two templates whose split gives different numbers of
\* ranges, several each.
C23_TwoTemplatesSeveralBatches ==
    /\ ppc = "dispatch"
    /\ Len(combined_template_list) = 2
    /\ RangesOf(1) >= 2
    /\ RangesOf(2) >= 2
    /\ RangesOf(1) # RangesOf(2)
    /\ Len(payload_list) = RangesOf(1) + RangesOf(2)

====
